---- MODULE Spec2Model ----
(***************************************************************************)
(* Virtual try-on: the client form controller (src/app/page.tsx) and the   *)
(* proxy endpoint POST /api/tryon (src/app/api/tryon/route.ts).            *)
(*                                                                         *)
(* JavaScript strings are modelled as sequences of pieces, so that string  *)
(* concatenation and template literals are \o and "contains" is a          *)
(* subsequence test.  null, undefined and the empty string are all falsy   *)
(* in the code's tests (`x || d`, `if (x)`, `!x`) and are all modelled by  *)
(* the empty sequence NULL.  A File is a record.                           *)
(***************************************************************************)
EXTENDS Integers, Sequences, FiniteSets, Bags, TLC

NULL == <<>>

\* ------------------------------------------------------------------------
\* Bounds of the model
\* ------------------------------------------------------------------------
\* asynchronous operations of the page (FileReader reads and fetches) that
\* may be outstanding at the same time
MaxPending == 2
\* content segments in one candidate of an upstream reply
MaxParts == 2

\* ------------------------------------------------------------------------
\* Files the user can pick
\* ------------------------------------------------------------------------
\* page.tsx:26   10 * 1024 * 1024
MAX_FILE_SIZE == 10 * 1024 * 1024

Files ==
    { [name |-> "under.png", size |-> MAX_FILE_SIZE - 1],
      [name |-> "exact.png", size |-> MAX_FILE_SIZE],
      [name |-> "over.png",  size |-> MAX_FILE_SIZE + 1] }

Slots == {"user", "clothing"}

\* FileReader.readAsDataURL: the data URL of the file's content
readAsDataURL(file) == <<"data:", file.name>>

\* the messages of page.tsx
FileTooLargeError == <<"File size too large. Please use images smaller than 10MB.">>
MissingFilesError == <<"Please upload both your photo and a clothing item image.">>
NoImageError ==
    <<"API did not return a generated image. This might be due to ",
      "safety", " filters or processing issues.">>

\* ------------------------------------------------------------------------
\* Proxy endpoint: pure parts of POST (route.ts)
\* ------------------------------------------------------------------------
\* a multipart field the caller may send: absent (or an empty text field,
\* equally falsy), a non-empty text field, or a file
TextField == [text |-> "hello"]
FieldValues == {NULL, TextField} \cup Files
IsFile(v) == v \in Files

\* req.formData() either rejects (parsable = FALSE) or yields the fields
Forms == [parsable : BOOLEAN, userImage : FieldValues, clothingImage : FieldValues]

JsonBody(error, details, image, description) ==
    [error |-> error, details |-> details, image |-> image, description |-> description]

\* NextResponse.json(body, {status})
JsonResponse(status, body) == [status |-> status, body |-> body]

\* route.ts:29-38
ParseErrorResponse ==
    JsonResponse(400, JsonBody(<<"Invalid request body: Failed to parse FormData.">>,
                               <<"formData rejected">>, NULL, NULL))

\* route.ts:44-49
MissingFieldResponse ==
    JsonResponse(400, JsonBody(<<"Both userImage and clothingImage files are required">>,
                               NULL, NULL, NULL))

\* route.ts:197-206, the outer catch
ErrorResponse(details) ==
    JsonResponse(500, JsonBody(<<"Failed to process virtual try-on request">>,
                               details, NULL, NULL))

\* route.ts:44
FieldMissing(form) == form.userImage = NULL \/ form.clothingImage = NULL

\* route.ts:95,99: arrayBuffer() exists on a File only; on a text field the
\* call throws a TypeError, which the outer catch turns into a 500
ArrayBufferThrows(form) == ~IsFile(form.userImage) \/ ~IsFile(form.clothingImage)

\* content segments of a candidate
InlineJpegA == [mimeType |-> <<"image/jpeg">>, data |-> <<"AAAA">>]
InlineNoMimeB == [mimeType |-> NULL, data |-> <<"BBBB">>]
InlineNoData == [mimeType |-> <<"image/webp">>, data |-> NULL]
Parts ==
    { [inlineData |-> InlineJpegA,   text |-> NULL],
      [inlineData |-> InlineNoMimeB, text |-> NULL],
      [inlineData |-> InlineNoData,  text |-> NULL],
      [inlineData |-> NULL,          text |-> <<"t1">>],
      [inlineData |-> NULL,          text |-> <<"t2">>],
      [inlineData |-> InlineJpegA,   text |-> <<"t1">>],
      [inlineData |-> NULL,          text |-> NULL] }

SeqsUpTo(S, n) == UNION { [1..k -> S] : k \in 0..n }

\* candidates[i].content.parts: absent, or a list of segments
Candidates == {[parts |-> NULL]} \cup { [parts |-> ps] : ps \in SeqsUpTo(Parts, MaxParts) }

\* a second candidate, which the code never looks at
OtherCandidate == [parts |-> <<[inlineData |-> InlineNoMimeB, text |-> NULL]>>]

CandidateLists ==
    {NULL} \cup { <<c>> : c \in Candidates } \cup { <<c, OtherCandidate>> : c \in Candidates }

BlockReasons == {NULL, <<"SAFETY">>}

\* what ai.models.generateContent does: it throws an Error with a message,
\* throws something that is no Error, or returns a response
ThrownReplies ==
    { [threw |-> TRUE, isError |-> e, message |-> <<"quota exceeded">>,
       candidates |-> NULL, blockReason |-> NULL] : e \in BOOLEAN }
ReturnedReplies ==
    { [threw |-> FALSE, isError |-> FALSE, message |-> NULL,
       candidates |-> cs, blockReason |-> b] : cs \in CandidateLists, b \in BlockReasons }
Replies == ThrownReplies \cup ReturnedReplies

\* route.ts:155-157
NoExtract == [textResponse |-> NULL, imageData |-> NULL, imageMimeType |-> <<"image/png">>]

\* the loop body as it would be with a break after the first hit of each kind
ExtractPartKeepFirst(acc, part) ==
    IF part.inlineData # NULL
    THEN IF acc.imageData # NULL THEN acc
         ELSE [acc EXCEPT !.imageData = part.inlineData.data,
                          !.imageMimeType = IF part.inlineData.mimeType # NULL
                                            THEN part.inlineData.mimeType
                                            ELSE <<"image/png">>]
    ELSE IF part.text # NULL /\ acc.textResponse = NULL
         THEN [acc EXCEPT !.textResponse = part.text]
         ELSE acc

\* route.ts:166-175, the body of the loop over the parts
ExtractPart(acc, part) ==
    IF part.inlineData # NULL
    THEN [acc EXCEPT !.imageData = part.inlineData.data,
                     !.imageMimeType = IF part.inlineData.mimeType # NULL
                                       THEN part.inlineData.mimeType
                                       ELSE <<"image/png">>]
    ELSE IF part.text # NULL
         THEN [acc EXCEPT !.textResponse = part.text]
         ELSE acc

\* route.ts:165, for (const part of parts)
RECURSIVE ExtractFrom(_, _, _)
ExtractFrom(acc, parts, i) ==
    IF i > Len(parts) THEN acc ELSE ExtractFrom(ExtractPart(acc, parts[i]), parts, i + 1)

\* route.ts:161-179
ExtractParts(parts) == IF parts # NULL THEN ExtractFrom(NoExtract, parts, 1) ELSE NoExtract

\* the success body with the base64 payload alone as the image
SuccessResponseRawData(acc) ==
    JsonResponse(200,
        JsonBody(NULL, NULL, acc.imageData,
                 IF acc.textResponse # NULL
                 THEN acc.textResponse
                 ELSE <<"AI description not available.">>))

\* route.ts:192-195
SuccessResponse(acc) ==
    JsonResponse(200,
        JsonBody(NULL, NULL,
                 IF acc.imageData # NULL
                 THEN <<"data:">> \o acc.imageMimeType \o <<";base64,">> \o acc.imageData
                 ELSE NULL,
                 IF acc.textResponse # NULL
                 THEN acc.textResponse
                 ELSE <<"AI description not available.">>))

\* route.ts:147-153, the inner catch rethrows
ApiCallError(reply) ==
    IF reply.isError
    THEN <<"Failed during API call: ">> \o reply.message
    ELSE <<"An unknown error occurred during the API call">>

\* the zero-candidates error without the look at promptFeedback.blockReason
NoCandidatesErrorGeneric(reply) ==
    <<"Received an unexpected or empty response from the API.">>

\* route.ts:181-189
NoCandidatesError(reply) ==
    IF reply.blockReason # NULL
    THEN <<"Content generation failed due to safety settings: ">> \o reply.blockReason
    ELSE <<"Received an unexpected or empty response from the API.">>

\* route.ts:160
HasCandidates(reply) == reply.candidates # NULL /\ Len(reply.candidates) > 0

\* route.ts:147-206: POST from the point where generateContent has settled
ProcessReply(reply) ==
    IF reply.threw
    THEN ErrorResponse(ApiCallError(reply))
    ELSE IF HasCandidates(reply)
         THEN SuccessResponse(ExtractParts(reply.candidates[1].parts))
         ELSE ErrorResponse(NoCandidatesError(reply))

\* route.ts:25-104: POST up to the call of the model; NULL when the call is made
BeforeCall(form) ==
    IF ~form.parsable THEN ParseErrorResponse
    ELSE IF FieldMissing(form) THEN MissingFieldResponse
    ELSE IF ArrayBufferThrows(form)
         THEN ErrorResponse(<<"arrayBuffer is not a function">>)
         ELSE NULL

\* route.ts:25-207: the response of POST to a form, given what the model call does
POST(form, reply) ==
    IF BeforeCall(form) # NULL THEN BeforeCall(form) ELSE ProcessReply(reply)

\* ------------------------------------------------------------------------
\* State
\* ------------------------------------------------------------------------
VARIABLES
    userImage,             \* page.tsx:6    File | null
    clothingImage,         \* page.tsx:7    File | null
    userImagePreview,      \* page.tsx:8    data URL | null
    clothingImagePreview,  \* page.tsx:9    data URL | null
    resultImageUrl,        \* page.tsx:10   data URL | null
    isLoading,             \* page.tsx:11
    error,                 \* page.tsx:12   message | null
    userFileInput,         \* page.tsx:15   what the person file picker shows
    clothingFileInput,     \* page.tsx:16   what the garment file picker shows
    reads,                 \* FileReader reads started and not yet ended
    inflight,              \* fetches of handleSubmit that have not settled in the page
    proxy,                 \* one run of the proxy's POST handler
    handlers               \* runs of the proxy's POST handler going on at the same time

clientVars == <<userImage, clothingImage, userImagePreview, clothingImagePreview,
                resultImageUrl, isLoading, error, userFileInput, clothingFileInput,
                reads, inflight>>
vars == <<userImage, clothingImage, userImagePreview, clothingImagePreview,
          resultImageUrl, isLoading, error, userFileInput, clothingFileInput,
          reads, inflight, proxy, handlers>>

\* two requests that the proxy handles concurrently
Runs == {"first", "second"}

ProxyIdle == [pc |-> "idle", form |-> NULL, reply |-> NULL, response |-> NULL, modelCalls |-> 0]

Init ==
    /\ userImage = NULL
    /\ clothingImage = NULL
    /\ userImagePreview = NULL
    /\ clothingImagePreview = NULL
    /\ resultImageUrl = NULL
    /\ isLoading = FALSE
    /\ error = NULL
    /\ userFileInput = NULL
    /\ clothingFileInput = NULL
    /\ reads = {}
    /\ inflight = EmptyBag
    /\ proxy = ProxyIdle
    /\ handlers = [run \in Runs |-> ProxyIdle]

Image(slot) == IF slot = "user" THEN userImage ELSE clothingImage
Preview(slot) == IF slot = "user" THEN userImagePreview ELSE clothingImagePreview
FileInput(slot) == IF slot = "user" THEN userFileInput ELSE clothingFileInput

\* the setImage / setPreview arguments of handleFileChange (page.tsx:149, 184)
setImage(slot, file) ==
    IF slot = "user"
    THEN userImage' = file /\ UNCHANGED clothingImage
    ELSE clothingImage' = file /\ UNCHANGED userImage
setPreview(slot, url) ==
    IF slot = "user"
    THEN userImagePreview' = url /\ UNCHANGED clothingImagePreview
    ELSE clothingImagePreview' = url /\ UNCHANGED userImagePreview

\* the size test with a limit of 100MB
TooLargeAt100MB(file) == file.size > 100 * 1024 * 1024

\* page.tsx:26
TooLarge(file) == file.size > MAX_FILE_SIZE

\* ------------------------------------------------------------------------
\* Client form controller (page.tsx)
\* ------------------------------------------------------------------------
\* page.tsx:18-43.  file = NULL is files?.[0] undefined (the picker emptied)
handleFileChange(slot, file) ==
    /\ IF file # NULL
       THEN IF TooLarge(file)
            THEN /\ error' = FileTooLargeError
                 /\ UNCHANGED <<userImage, clothingImage, userImagePreview,
                                clothingImagePreview, reads>>
            ELSE /\ setImage(slot, file)
                 /\ reads' = reads \cup {[slot |-> slot, file |-> file]}
                 /\ error' = NULL
                 /\ UNCHANGED <<userImagePreview, clothingImagePreview>>
       ELSE /\ setImage(slot, NULL)
            /\ setPreview(slot, NULL)
            /\ UNCHANGED <<error, reads>>
    /\ UNCHANGED <<resultImageUrl, isLoading, inflight>>

\* the user picks a file in (or empties) one of the two pickers: the control
\* shows the choice and its onChange runs handleFileChange (page.tsx:149, 184)
Picks(slot, file) ==
        /\ IF file = NULL THEN TRUE
           ELSE IF TooLarge(file) THEN TRUE
           ELSE Cardinality(reads \cup {[slot |-> slot, file |-> file]})
                    + BagCardinality(inflight) <= MaxPending
        /\ IF slot = "user"
           THEN userFileInput' = file /\ UNCHANGED clothingFileInput
           ELSE clothingFileInput' = file /\ UNCHANGED userFileInput
        /\ handleFileChange(slot, file)
        /\ UNCHANGED <<proxy, handlers>>

PickFile == \E slot \in Slots, file \in Files \cup {NULL} : Picks(slot, file)

\* onloadend that sets the preview of the other slot
onloadendOtherSlot(read) ==
    /\ read \in reads
    /\ setPreview(IF read.slot = "user" THEN "clothing" ELSE "user", readAsDataURL(read.file))
    /\ reads' = reads \ {read}
    /\ UNCHANGED <<userImage, clothingImage, resultImageUrl, isLoading, error,
                   userFileInput, clothingFileInput, inflight, proxy, handlers>>

\* page.tsx:34-36, reader.onloadend of one pending read
onloadend(read) ==
    /\ read \in reads
    /\ setPreview(read.slot, readAsDataURL(read.file))
    /\ reads' = reads \ {read}
    /\ UNCHANGED <<userImage, clothingImage, resultImageUrl, isLoading, error,
                   userFileInput, clothingFileInput, inflight, proxy, handlers>>

ReadEnds == \E read \in reads : onloadend(read)

\* page.tsx:61, what fetch sends
Request(user, clothing) ==
    [phase |-> "sent", userImage |-> user, clothingImage |-> clothing,
     reply |-> NULL, response |-> NULL]

\* handleSubmit with && for || in its guard
handleSubmitGuardAnd ==
    /\ IF userImage = NULL /\ clothingImage = NULL
       THEN /\ error' = MissingFilesError
            /\ UNCHANGED <<isLoading, resultImageUrl, inflight>>
       ELSE /\ Cardinality(reads) + BagCardinality(inflight) < MaxPending
            /\ isLoading' = TRUE
            /\ error' = NULL
            /\ resultImageUrl' = NULL
            /\ inflight' = inflight (+) SetToBag({Request(userImage, clothingImage)})
    /\ UNCHANGED <<userImage, clothingImage, userImagePreview, clothingImagePreview,
                   userFileInput, clothingFileInput, reads, proxy, handlers>>

\* page.tsx:45-64: handleSubmit up to the await of fetch
handleSubmit ==
    /\ IF userImage = NULL \/ clothingImage = NULL
       THEN /\ error' = MissingFilesError
            /\ UNCHANGED <<isLoading, resultImageUrl, inflight>>
       ELSE /\ Cardinality(reads) + BagCardinality(inflight) < MaxPending
            /\ isLoading' = TRUE
            /\ error' = NULL
            /\ resultImageUrl' = NULL
            /\ inflight' = inflight (+) SetToBag({Request(userImage, clothingImage)})
    /\ UNCHANGED <<userImage, clothingImage, userImagePreview, clothingImagePreview,
                   userFileInput, clothingFileInput, reads, proxy, handlers>>

\* page.tsx:226, disabled={isLoading || !userImage || !clothingImage}
SubmitDisabled == isLoading \/ userImage = NULL \/ clothingImage = NULL

\* the user clicks "Try It On!"
ClickSubmit == ~SubmitDisabled /\ handleSubmit

\* page.tsx:137: the form's submit event reaches onSubmit without the button
\* (form.requestSubmit(), a dispatched submit event)
FormSubmit == SubmitDisabled /\ handleSubmit

\* handleReset without the two lines that empty the file inputs
handleResetKeepsInputs ==
    /\ userImage' = NULL
    /\ clothingImage' = NULL
    /\ userImagePreview' = NULL
    /\ clothingImagePreview' = NULL
    /\ resultImageUrl' = NULL
    /\ error' = NULL
    /\ isLoading' = FALSE
    /\ UNCHANGED <<userFileInput, clothingFileInput, reads, inflight, proxy, handlers>>

\* page.tsx:91-102
handleReset ==
    /\ userImage' = NULL
    /\ clothingImage' = NULL
    /\ userImagePreview' = NULL
    /\ clothingImagePreview' = NULL
    /\ resultImageUrl' = NULL
    /\ error' = NULL
    /\ isLoading' = FALSE
    /\ userFileInput' = NULL
    /\ clothingFileInput' = NULL
    /\ UNCHANGED <<reads, inflight, proxy, handlers>>

\* upstream replies the end-to-end runs draw from
E2EParts ==
    { NULL,
      <<[inlineData |-> InlineJpegA, text |-> NULL], [inlineData |-> NULL, text |-> <<"t1">>]>>,
      <<[inlineData |-> NULL, text |-> <<"t1">>]>> }
E2EReplies ==
    { r \in Replies :
        \/ r.threw /\ r.isError
        \/ ~r.threw /\ r.candidates = NULL /\ r.blockReason # NULL
        \/ ~r.threw /\ r.blockReason = NULL /\ \E ps \in E2EParts : r.candidates = <<[parts |-> ps]>> }

\* the outstanding fetches are a multiset: they settle in any order
Remove(bag, request) == bag (-) SetToBag({request})
Replace(bag, request, new) == Remove(bag, request) (+) SetToBag({new})

\* the request reaches the proxy, which answers it (route.ts POST)
ServerAnswers ==
    \E request \in BagToSet(inflight), reply \in E2EReplies :
        /\ request.phase = "sent"
        /\ inflight' = Replace(inflight, request,
               [phase |-> "answered", userImage |-> NULL, clothingImage |-> NULL,
                reply |-> reply,
                response |-> POST([parsable |-> TRUE, userImage |-> request.userImage,
                                   clothingImage |-> request.clothingImage], reply)])
        /\ UNCHANGED <<userImage, clothingImage, userImagePreview, clothingImagePreview,
                       resultImageUrl, isLoading, error, userFileInput, clothingFileInput,
                       reads, proxy, handlers>>

\* the request or its response is lost: fetch will reject
NetworkFails ==
    \E request \in BagToSet(inflight) :
        /\ request.phase = "sent"
        /\ inflight' = Replace(inflight, request,
               [phase |-> "failed", userImage |-> NULL, clothingImage |-> NULL,
                reply |-> NULL, response |-> NULL])
        /\ UNCHANGED <<userImage, clothingImage, userImagePreview, clothingImagePreview,
                       resultImageUrl, isLoading, error, userFileInput, clothingFileInput,
                       reads, proxy, handlers>>

\* Response.ok
Ok(response) == response.status >= 200 /\ response.status <= 299
\* Response.statusText
StatusText(response) ==
    IF response.status = 400 THEN <<"Bad Request">>
    ELSE IF response.status = 500 THEN <<"Internal Server Error">>
    ELSE <<"OK">>

\* the message built from the status text alone
ApiErrorMessageStatusOnly(response) == <<"API Error: ">> \o StatusText(response)

\* page.tsx:69-71
ApiErrorMessage(response) ==
    IF response.body.error # NULL
    THEN response.body.error
    ELSE <<"API Error: ">> \o StatusText(response)

\* the continuation without the check of result.image
fetchSettledNoImageCheck(request) ==
    /\ BagIn(request, inflight)
    /\ request.phase \in {"answered", "failed"}
    /\ IF request.phase = "failed"
       THEN error' = <<"Failed to fetch">> /\ resultImageUrl' = NULL
       ELSE IF ~Ok(request.response)
            THEN error' = ApiErrorMessage(request.response) /\ resultImageUrl' = NULL
            ELSE resultImageUrl' = request.response.body.image /\ UNCHANGED error
    /\ isLoading' = FALSE
    /\ inflight' = Remove(inflight, request)
    /\ UNCHANGED <<userImage, clothingImage, userImagePreview, clothingImagePreview,
                   userFileInput, clothingFileInput, reads, proxy, handlers>>

\* the continuation with setIsLoading(false) at the end of the try block
\* instead of in a finally
fetchSettledNoFinally(request) ==
    /\ BagIn(request, inflight)
    /\ request.phase \in {"answered", "failed"}
    /\ IF request.phase = "failed"
       THEN error' = <<"Failed to fetch">> /\ resultImageUrl' = NULL /\ UNCHANGED isLoading
       ELSE IF ~Ok(request.response)
            THEN /\ error' = ApiErrorMessage(request.response)
                 /\ resultImageUrl' = NULL
                 /\ UNCHANGED isLoading
            ELSE IF request.response.body.image # NULL
                 THEN /\ resultImageUrl' = request.response.body.image
                      /\ isLoading' = FALSE
                      /\ UNCHANGED error
                 ELSE error' = NoImageError /\ resultImageUrl' = NULL /\ UNCHANGED isLoading
    /\ inflight' = Remove(inflight, request)
    /\ UNCHANGED <<userImage, clothingImage, userImagePreview, clothingImagePreview,
                   userFileInput, clothingFileInput, reads, proxy, handlers>>

\* page.tsx:60-88: handleSubmit from the point where fetch has settled
fetchSettled(request) ==
    /\ BagIn(request, inflight)
    /\ request.phase \in {"answered", "failed"}
    /\ IF request.phase = "failed"
       THEN error' = <<"Failed to fetch">> /\ resultImageUrl' = NULL
       ELSE IF ~Ok(request.response)
            THEN error' = ApiErrorMessage(request.response) /\ resultImageUrl' = NULL
            ELSE IF request.response.body.image # NULL
                 THEN resultImageUrl' = request.response.body.image /\ UNCHANGED error
                 ELSE error' = NoImageError /\ resultImageUrl' = NULL
    /\ isLoading' = FALSE
    /\ inflight' = Remove(inflight, request)
    /\ UNCHANGED <<userImage, clothingImage, userImagePreview, clothingImagePreview,
                   userFileInput, clothingFileInput, reads, proxy, handlers>>

FetchSettles == \E request \in BagToSet(inflight) : fetchSettled(request)

Next ==
    \/ PickFile
    \/ ReadEnds
    \/ ClickSubmit
    \/ FormSubmit
    \/ handleReset
    \/ ServerAnswers
    \/ NetworkFails
    \/ FetchSettles

Spec == Init /\ [][Next]_vars

\* the page as a user can drive it: handleSubmit runs only from the button
NextUI ==
    \/ PickFile
    \/ ReadEnds
    \/ ClickSubmit
    \/ handleReset
    \/ ServerAnswers
    \/ NetworkFails
    \/ FetchSettles

SpecUI == Init /\ [][NextUI]_vars

\* Scheduling: a started FileReader read ends, a sent request is answered or
\* lost, and the continuation of a settled fetch runs
AllReads == [slot : Slots, file : Files]
FairReads ==
    /\ Spec
    /\ \A read \in AllReads : WF_vars(onloadend(read))
FairFetch ==
    /\ Spec
    /\ WF_vars(ServerAnswers \/ NetworkFails)
    /\ WF_vars(FetchSettles)

\* ------------------------------------------------------------------------
\* Proxy endpoint on its own: any caller, any form, any upstream reply
\* ------------------------------------------------------------------------
\* a request arrives at POST /api/tryon (route.ts:25)
ProxyRequest ==
    \E form \in Forms :
        /\ proxy.pc \in {"idle", "done"}
        /\ proxy' = [ProxyIdle EXCEPT !.pc = "received", !.form = form]
        /\ UNCHANGED <<clientVars, handlers>>

\* route.ts:25-143: parse the form, check the fields, read the files and
\* call the model, unless one of these steps answers the request
POSTbegin ==
    /\ proxy.pc = "received"
    /\ IF BeforeCall(proxy.form) # NULL
       THEN proxy' = [proxy EXCEPT !.pc = "done", !.response = BeforeCall(proxy.form)]
       ELSE proxy' = [proxy EXCEPT !.pc = "calling", !.modelCalls = proxy.modelCalls + 1]
    /\ UNCHANGED <<clientVars, handlers>>

\* route.ts:143-206: generateContent settles and the handler answers
POSTfinish ==
    \E reply \in Replies :
        /\ proxy.pc = "calling"
        /\ proxy' = [proxy EXCEPT !.pc = "done", !.reply = reply,
                                  !.response = ProcessReply(reply)]
        /\ UNCHANGED <<clientVars, handlers>>

\* the same handler, run for two requests whose awaits interleave.  The
\* handler's variables are all local to one call (route.ts:26-157); the
\* module-level ai and MODEL_ID (route.ts:20, 23) are never assigned.
ConcForms ==
    { form \in Forms :
        \/ ~form.parsable /\ form.userImage = NULL /\ form.clothingImage = NULL
        \/ /\ form.parsable
           /\ form.userImage \in {TextField, [name |-> "under.png", size |-> MAX_FILE_SIZE - 1]}
           /\ form.clothingImage \in {NULL, [name |-> "exact.png", size |-> MAX_FILE_SIZE]} }
ConcReplies == E2EReplies \cup ThrownReplies

\* route.ts:25-143 for one run
Begun(run) ==
    IF BeforeCall(run.form) # NULL
    THEN [run EXCEPT !.pc = "done", !.response = BeforeCall(run.form)]
    ELSE [run EXCEPT !.pc = "calling", !.modelCalls = run.modelCalls + 1]

\* the end of a run that calls the model once more when the call has thrown
FinishedWithRetry(run, reply) ==
    IF reply.threw /\ run.modelCalls < 2
    THEN [run EXCEPT !.modelCalls = run.modelCalls + 1]
    ELSE [run EXCEPT !.pc = "done", !.reply = reply, !.response = ProcessReply(reply)]

\* route.ts:143-206 for one run
Finished(run, reply) ==
    [run EXCEPT !.pc = "done", !.reply = reply, !.response = ProcessReply(reply)]

RunRequest ==
    \E run \in Runs, form \in ConcForms :
        /\ handlers[run].pc \in {"idle", "done"}
        /\ handlers' = [handlers EXCEPT ![run] = [ProxyIdle EXCEPT !.pc = "received", !.form = form]]
        /\ UNCHANGED <<clientVars, proxy>>

RunBegins ==
    \E run \in Runs :
        /\ handlers[run].pc = "received"
        /\ handlers' = [handlers EXCEPT ![run] = Begun(handlers[run])]
        /\ UNCHANGED <<clientVars, proxy>>

RunFinishes ==
    \E run \in Runs, reply \in ConcReplies :
        /\ handlers[run].pc = "calling"
        /\ handlers' = [handlers EXCEPT ![run] = Finished(handlers[run], reply)]
        /\ UNCHANGED <<clientVars, proxy>>

NextConc ==
    \/ RunRequest
    \/ RunBegins
    \/ RunFinishes

ConcSpec == Init /\ [][NextConc]_vars

NextProxy ==
    \/ ProxyRequest
    \/ POSTbegin
    \/ POSTfinish

ProxySpec == Init /\ [][NextProxy]_vars

\* ------------------------------------------------------------------------
\* Vocabulary of the properties
\* ------------------------------------------------------------------------
\* msg contains sub as a substring
Contains(msg, sub) ==
    \E i \in 0..(Len(msg) - Len(sub)) : SubSeq(msg, i + 1, i + Len(sub)) = sub

\* the run of the proxy has answered a request that carried both image files
\* and for which the model call returned (it did not throw)
ProxyAnsweredReply ==
    /\ proxy.pc = "done"
    /\ proxy.modelCalls = 1
    /\ ~proxy.reply.threw

\* the segments of the first candidate (none when it has no parts)
FirstParts == proxy.reply.candidates[1].parts
\* segments with an inlineData object, with a non-empty payload, with text,
\* with text and no inlineData object
InlineAt == { i \in 1..Len(FirstParts) : FirstParts[i].inlineData # NULL }
InlineDataAt == { i \in InlineAt : FirstParts[i].inlineData.data # NULL }
TextAt == { i \in 1..Len(FirstParts) : FirstParts[i].text # NULL }
TextOnlyAt == { i \in TextAt : FirstParts[i].inlineData = NULL }
Least(S) == CHOOSE i \in S : \A j \in S : i <= j
Greatest(S) == CHOOSE i \in S : \A j \in S : j <= i

MimeOrPng(inline) == IF inline.mimeType # NULL THEN inline.mimeType ELSE <<"image/png">>
DataUrl(mime, data) == <<"data:">> \o mime \o <<";base64,">> \o data

ProxyBlocked ==
    /\ ProxyAnsweredReply
    /\ ~HasCandidates(proxy.reply)
    /\ proxy.reply.blockReason # NULL

\* C5 as stated: zero candidates and a block reason give status 500 with an
\* error message (the body's error field) that contains the block reason.
C5_ErrorContainsReason ==
    ProxyBlocked =>
        /\ proxy.response.status = 500
        /\ Contains(proxy.response.body.error, proxy.reply.blockReason)

\* C5 amended: zero candidates and a block reason give status 500 whose
\* error field is the fixed message "Failed to process virtual try-on
\* request" and whose details string contains the block reason.
C5_DetailsContainReason ==
    ProxyBlocked =>
        /\ proxy.response.status = 500
        /\ proxy.response.body.error = <<"Failed to process virtual try-on request">>
        /\ Contains(proxy.response.body.details, proxy.reply.blockReason)

C5_Witness ==
    /\ ProxyBlocked
    /\ proxy.response.status = 500
    /\ proxy.response.body.details =
           <<"Content generation failed due to safety settings: ", "SAFETY">>

\* ------------------------------------------------------------------------
\* C6
\* ------------------------------------------------------------------------
\* the first candidate is one inline-data segment (mime, data) and one text
\* segment, the inline-data segment being at position i
OneImageOneTextAt(i) ==
    /\ ProxyAnsweredReply
    /\ HasCandidates(proxy.reply)
    /\ Len(FirstParts) = 2
    /\ InlineAt = {i}
    /\ FirstParts[i].inlineData.mimeType # NULL
    /\ FirstParts[i].inlineData.data # NULL
    /\ TextOnlyAt = {3 - i}

\* C6: a request with both image fields whose upstream reply's first
\* candidate is exactly one inline-data segment (mime, data) and one text
\* segment, in either order, is answered 200 with image
\* data:<mime>;base64,<data> and description the text segment.
C6_ImageAndText ==
    \A i \in {1, 2} :
        OneImageOneTextAt(i) =>
            /\ proxy.response.status = 200
            /\ proxy.response.body.image =
                   <<"data:">> \o FirstParts[i].inlineData.mimeType
                       \o <<";base64,">> \o FirstParts[i].inlineData.data
            /\ proxy.response.body.description = FirstParts[3 - i].text

\* the text segment first, the inline-data segment second
C6_Witness ==
    /\ OneImageOneTextAt(2)
    /\ IsFile(proxy.form.userImage) /\ IsFile(proxy.form.clothingImage)
    /\ proxy.response.body.image = <<"data:", "image/jpeg", ";base64,", "AAAA">>
    /\ proxy.response.body.description = <<"t2">>

\* ------------------------------------------------------------------------
\* C8
\* ------------------------------------------------------------------------
\* C8: every request is answered by the failure table: 400 when the body
\* cannot be parsed, 400 when userImage or clothingImage is missing, in both
\* cases without a call of the model; 500 when the model call fails or
\* returns zero candidates; 200 otherwise.
C8_FailureTable ==
    proxy.pc = "done" =>
        IF ~proxy.form.parsable \/ FieldMissing(proxy.form)
        THEN proxy.response.status = 400 /\ proxy.modelCalls = 0
        ELSE IF proxy.modelCalls = 1 /\ (proxy.reply.threw \/ ~HasCandidates(proxy.reply))
             THEN proxy.response.status = 500
             ELSE proxy.response.status = 200

\* ------------------------------------------------------------------------
\* C1
\* ------------------------------------------------------------------------
\* C1: in either slot, picking a file of 10MB or more (size >= 10*1024*1024)
\* is rejected: the error message is set and the slot's stored file and
\* preview stay as they were.
C1_AtOrOverLimitRejected ==
    [][ \A slot \in Slots, file \in Files :
            file.size >= 10 * 1024 * 1024 /\ Picks(slot, file) =>
                /\ error' = FileTooLargeError
                /\ UNCHANGED <<userImage, clothingImage,
                               userImagePreview, clothingImagePreview>> ]_vars

\* ------------------------------------------------------------------------
\* C2
\* ------------------------------------------------------------------------
\* C2: in either slot, picking a file under 10MB stores the file in the slot
\* and clears the error, and the read it starts leads to the slot's preview
\* being the data URL of that file.
C2_UnderLimitAccepted ==
    /\ [][ \A slot \in Slots, file \in Files :
               file.size < 10 * 1024 * 1024 /\ Picks(slot, file) =>
                   /\ Image(slot)' = file
                   /\ error' = NULL
                   /\ [slot |-> slot, file |-> file] \in reads' ]_vars
    /\ \A slot \in Slots, file \in { f \in Files : f.size < 10 * 1024 * 1024 } :
           ([slot |-> slot, file |-> file] \in reads)
               ~> (Preview(slot) = readAsDataURL(file))

\* a file under the limit sits in the person slot with its preview shown
C2_Witness ==
    /\ userImage # NULL
    /\ userImage.size < 10 * 1024 * 1024
    /\ userImagePreview = readAsDataURL(userImage)
    /\ error = NULL
    /\ reads = {}

\* ------------------------------------------------------------------------
\* C3
\* ------------------------------------------------------------------------
\* C3: handleSubmit with the person slot or the garment slot empty issues
\* no request and sets the fixed validation error, and leaves the loading
\* flag and the result as they were.
C3_EmptySlotSubmit ==
    [][ (userImage = NULL \/ clothingImage = NULL) /\ (ClickSubmit \/ FormSubmit) =>
            /\ inflight' = inflight
            /\ error' = <<"Please upload both your photo and a clothing item image.">>
            /\ isLoading' = isLoading
            /\ resultImageUrl' = resultImageUrl ]_vars

\* a submit with only the person slot filled has been refused
C3_Witness ==
    /\ error = MissingFilesError
    /\ userImage # NULL
    /\ clothingImage = NULL
    /\ inflight = EmptyBag

\* ------------------------------------------------------------------------
\* C7
\* ------------------------------------------------------------------------
\* the upstream reply of an answered request has a candidate and no
\* inline-data segment
NoInlineSegment(reply) ==
    /\ ~reply.threw
    /\ HasCandidates(reply)
    /\ \A i \in 1..Len(reply.candidates[1].parts) :
           reply.candidates[1].parts[i].inlineData = NULL
AnsweredWithoutImage(request) ==
    request.phase = "answered" /\ NoInlineSegment(request.reply)

\* C7: when the upstream reply has a candidate and no inline-data segment,
\* the proxy answers 200 with image null, and the page that receives this
\* answer sets the fixed "API did not return a generated image..." error
\* and leaves the result image null.
C7_NoImageEndToEnd ==
    /\ [](\A request \in BagToSet(inflight) :
              AnsweredWithoutImage(request) =>
                  request.response.status = 200 /\ request.response.body.image = NULL)
    /\ [][ \A request \in BagToSet(inflight) :
               AnsweredWithoutImage(request) /\ fetchSettled(request) =>
                   /\ error' = NoImageError
                   /\ resultImageUrl' = NULL ]_vars

\* the page has received such an answer
C7_Witness ==
    /\ error = NoImageError
    /\ resultImageUrl = NULL
    /\ ~isLoading

\* ------------------------------------------------------------------------
\* C9
\* ------------------------------------------------------------------------
\* C9: within one session at most one try-on request is in flight at any
\* time, whatever the order of file picks, clicks on the submit button,
\* resets and arrivals of responses.
C9_AtMostOneInFlight == BagCardinality(inflight) <= 1

\* ------------------------------------------------------------------------
\* C10
\* ------------------------------------------------------------------------
\* C10: the completion of a request clears the loading flag, whatever its
\* outcome (an image, a non-success status, a 200 without image, a failed
\* fetch), and a loading flag that is set is eventually cleared.
C10_LoadingCleared ==
    /\ [][ \A request \in BagToSet(inflight) :
               fetchSettled(request) => isLoading' = FALSE ]_vars
    /\ isLoading ~> ~isLoading

\* a request failed in the network and the flag is cleared
C10_Witness ==
    /\ error = <<"Failed to fetch">>
    /\ ~isLoading
    /\ inflight = EmptyBag

\* ------------------------------------------------------------------------
\* C11
\* ------------------------------------------------------------------------
\* what Reset is to leave: no files, no previews, no result, no error, not
\* loading, both file pickers empty
AllCleared ==
    /\ userImage = NULL
    /\ clothingImage = NULL
    /\ userImagePreview = NULL
    /\ clothingImagePreview = NULL
    /\ resultImageUrl = NULL
    /\ error = NULL
    /\ isLoading = FALSE
    /\ userFileInput = NULL
    /\ clothingFileInput = NULL

\* C11: handleReset, from any reachable state, leaves both files null, both
\* previews null, the result null, the error null, loading false and both
\* file pickers empty.
C11_ResetClears == [][ handleReset => AllCleared' ]_vars

\* the page is cleared while a request is outstanding
C11_Witness ==
    /\ AllCleared
    /\ BagCardinality(inflight) = 1

\* ------------------------------------------------------------------------
\* C12
\* ------------------------------------------------------------------------
\* C12: every request the page has issued carries both files, and each of
\* them passed the size validation: it is at most 10MB.
C12_RequestsCarryValidFiles ==
    \A request \in BagToSet(inflight) :
        request.phase = "sent" =>
            /\ request.userImage \in Files
            /\ request.clothingImage \in Files
            /\ request.userImage.size <= 10 * 1024 * 1024
            /\ request.clothingImage.size <= 10 * 1024 * 1024

\* a request is on its way with a file of exactly 10MB in it
C12_Witness ==
    \E request \in BagToSet(inflight) :
        /\ request.phase = "sent"
        /\ request.userImage # NULL
        /\ request.userImage.size = 10 * 1024 * 1024
        /\ request.clothingImage # NULL

\* ------------------------------------------------------------------------
\* C13
\* ------------------------------------------------------------------------
NonSuccess(request) ==
    /\ request.phase = "answered"
    /\ ~(request.response.status \in 200..299)

C15_PreviewMatchesFile ==
    reads = {} =>
        \A slot \in Slots :
            Preview(slot) = IF Image(slot) = NULL THEN NULL ELSE readAsDataURL(Image(slot))

\* ------------------------------------------------------------------------
\* C16
\* ------------------------------------------------------------------------
\* C16: in the state Reset leaves, the result and the error stay null until
\* the next file pick or submit: the end of a read, the answer to a request
\* and the continuation of a settled fetch do not change them.
C16_ClearedUntilNextInput ==
    [][ AllCleared /\ (ReadEnds \/ ServerAnswers \/ NetworkFails \/ FetchSettles) =>
            resultImageUrl' = NULL /\ error' = NULL ]_vars

\* ------------------------------------------------------------------------
\* C17
\* ------------------------------------------------------------------------
\* C17: the loading flag is true whenever a request of this session is
\* still in flight.
C17_LoadingWhileInFlight == inflight # EmptyBag => isLoading

\* ------------------------------------------------------------------------
\* C14
\* ------------------------------------------------------------------------
BothFiles(form) == form.parsable /\ IsFile(form.userImage) /\ IsFile(form.clothingImage)

\* C14: of two requests handled concurrently, each makes exactly one model
\* call when it carries both image files and none otherwise, never a second
\* one whatever the call does, and its answer is the function of its own
\* form and of the reply to its own call.
C14_OneCallOwnAnswer ==
    \A run \in Runs :
        /\ handlers[run].modelCalls <= 1
        /\ handlers[run].pc = "calling" => handlers[run].modelCalls = 1
        /\ handlers[run].pc = "done" =>
               /\ handlers[run].modelCalls = IF BothFiles(handlers[run].form) THEN 1 ELSE 0
               /\ handlers[run].response = POST(handlers[run].form, handlers[run].reply)

\* the first request's call threw and was not repeated; it is answered
\* while the second request's call is still under way
C14_Witness ==
    /\ handlers["first"].pc = "done"
    /\ handlers["first"].modelCalls = 1
    /\ handlers["first"].reply.threw
    /\ handlers["first"].response.status = 500
    /\ handlers["second"].pc = "calling"
    /\ handlers["second"].modelCalls = 1

====
